---- MODULE Spec2Model ----
(***************************************************************************)
(* Model of examples/python/basic_oauth.py: the five Flask route handlers  *)
(* of the OAuth 2.0 Authorization Code demo (/, /login, /callback,         *)
(* /logout, /api/profile) acting on one browser session.                   *)
(*                                                                         *)
(* The session is a Python dict: a function whose DOMAIN is the set of     *)
(* keys present.  Python's None is the value None below; a request         *)
(* parameter that is not given is None (request.args.get).                 *)
(* Requests are handled one after another; every action is one whole       *)
(* request, from the session it finds to the response it returns.          *)
(***************************************************************************)
EXTENDS Integers, Sequences, FiniteSets, TLC

\* Number of /login requests explored (each mints one new state value).
MaxLogins == 2

\* Number of /callback requests that may be in flight at the same time.
MaxConcurrent == 2

VARIABLES
    OAUTH_CONFIG,   \* the configuration mapping built at start-up
    session,        \* the session dict of the browser
    minted,         \* how many state values generate_state has returned
    pre,            \* the session as the last request found it
    req,            \* the last request: route and query arguments
    tresp,          \* <<>>, or <<r>>: the token endpoint's answer r to the last request's POST
    resp,           \* the response to the last request
    obtained,       \* a 200 token response carrying an access_token was received
                    \* since the session was created or last cleared
    consumed,       \* state values that passed validation since the last /login
    authorized,     \* <<>>, or <<p>>: the parameters p of the last /login redirect
    inflight        \* the /callback requests being handled at the same time
                    \* (none while requests are handled one after another)

vars == <<OAUTH_CONFIG, session, minted, pre, req, tresp, resp, obtained, consumed,
          authorized, inflight>>

----------------------------------------------------------------------------
(* Python values *)

None == "<None>"

\* Python truthiness of an optional string: None and "" are falsy.
Truthy(v) == v # None /\ v # ""

EmptySession == [k \in {} |-> None]

\* dict.get(k): the value, or None when the key is missing.
Get(d, k) == IF k \in DOMAIN d THEN d[k] ELSE None

\* d[k] = v
Put(d, k, v) == [x \in (DOMAIN d) \cup {k} |-> IF x = k THEN v ELSE d[x]]

\* the dict left by d.pop(k, None)
Pop(d, k) == [x \in (DOMAIN d) \ {k} |-> d[x]]

\* A JSON rendering of dict.get(k) that keeps null apart from a value.
Opt(d, k) == IF k \in DOMAIN d THEN <<d[k]>> ELSE <<>>

----------------------------------------------------------------------------
(* Configuration: os.getenv of an unset variable is None *)

EnvConfigured ==
    [client_id |-> "client-id", client_secret |-> "client-secret",
     redirect_uri |-> "http://localhost:5000/callback",
     authorization_url |-> "https://idp/authorize",
     token_url |-> "https://idp/token",
     scope |-> "openid profile email"]

EnvUnset ==
    [client_id |-> None, client_secret |-> None, redirect_uri |-> None,
     authorization_url |-> None, token_url |-> None,
     scope |-> "openid profile email"]

Configs == {EnvConfigured, EnvUnset}

----------------------------------------------------------------------------
(* generate_state *)

\* secrets.token_urlsafe(32): a value never returned before; the n-th one.
generate_state(n) == "state-" \o ToString(n)

StateValues == {generate_state(n) : n \in 1..MaxLogins}

----------------------------------------------------------------------------
(* Responses *)

Response(route, status, page) ==
    [route |-> route, status |-> status, page |-> page,
     location |-> None, params |-> <<>>, user |-> <<>>, posts |-> <<>>]

Redirect(route, location) ==
    [Response(route, 302, "redirect") EXCEPT !.location = location]

----------------------------------------------------------------------------
(* GET / *)

home(s) ==
    IF "user" \in DOMAIN s
    THEN [Response("/", 200, "welcome") EXCEPT !.user = <<s["user"].email>>]
    ELSE Response("/", 200, "login_link")

----------------------------------------------------------------------------
(* GET /login *)

\* a /login that starts the session afresh
LoginSession_Resets(s, state) == Put(EmptySession, "oauth_state", state)

\* session['oauth_state'] = state
LoginSession(s, state) == Put(s, "oauth_state", state)

\* a redirect with a redirect_uri written out instead of read from the configuration
AuthParams_OwnRedirect(cfg, state) ==
    [client_id |-> cfg.client_id, redirect_uri |-> "http://127.0.0.1:5000/callback",
     response_type |-> "code", scope |-> cfg.scope, state |-> state]

AuthParams(cfg, state) ==
    [client_id |-> cfg.client_id, redirect_uri |-> cfg.redirect_uri,
     response_type |-> "code", scope |-> cfg.scope, state |-> state]

login(s, cfg, state) ==
    [session |-> LoginSession(s, state),
     resp |-> [Redirect("/login", cfg.authorization_url)
                  EXCEPT !.params = <<AuthParams(cfg, state)>>]]

----------------------------------------------------------------------------
(* GET /logout *)

\* a /logout that forgets the flow but keeps the tokens
LogoutSession_KeepsTokens(s) == Pop(s, "oauth_state")

\* session.clear()
LogoutSession(s) == EmptySession

logout(s) == [session |-> LogoutSession(s), resp |-> Redirect("/logout", "/")]

----------------------------------------------------------------------------
(* GET /api/profile *)

\* a profile route guarded by the user claims instead of the access token
Authenticated_ByUser(s) == "user" \in DOMAIN s

Authenticated(s) == "access_token" \in DOMAIN s

profile(s) ==
    IF ~Authenticated(s)
    THEN Response("/api/profile", 401, "not_authenticated")
    ELSE [Response("/api/profile", 200, "protected_resource")
             EXCEPT !.user = <<Opt(s, "user")>>]

----------------------------------------------------------------------------
(* The token endpoint, as requests.post sees it *)

\* identity tokens, as the list id_token.split('.') of their segments
IdTokens ==
    { <<"">>,                      \* the empty string
      <<"opaque">>,                \* no dot: split('.')[1] raises IndexError
      <<"hdr", "garbage", "sig">>, \* segment 1 is not base64 of JSON text
      <<"hdr", "array", "sig">>,   \* segment 1 decodes to JSON that is no object
      <<"hdr", "ann", "sig">>,
      <<"hdr", "bob", "sig">> }

\* json.loads(base64.urlsafe_b64decode(segment + '==').decode('utf-8'))
DecodeSegment(seg) ==
    CASE seg = "ann" ->
           [kind |-> "object",
            value |-> [email |-> "ann@example.org", name |-> "Ann", sub |-> "u1",
                       iss |-> "https://idp"]]
      [] seg = "bob" ->
           [kind |-> "object", value |-> [sub |-> "u2", iss |-> "https://idp"]]
      [] seg = "array" -> [kind |-> "array", value |-> EmptySession]
      [] OTHER -> [kind |-> "raise", value |-> EmptySession]

\* the JSON object with the given members; <<>> leaves a member out
Body(a, r, i) ==
    [k \in (IF a = <<>> THEN {} ELSE {"access_token"})
           \cup (IF r = <<>> THEN {} ELSE {"refresh_token"})
           \cup (IF i = <<>> THEN {} ELSE {"id_token"})
        |-> CASE k = "access_token" -> a[1]
              [] k = "refresh_token" -> r[1]
              [] k = "id_token" -> i[1]]

Bodies ==
    { Body(a, r, i) :
        a \in {<<>>, <<"at1">>, <<"at2">>},
        r \in {<<>>, <<"">>, <<"rt1">>, <<"rt2">>},
        i \in {<<>>} \cup { <<t>> : t \in IdTokens } }

\* bodies sent with a status other than 200: an error object, and a full token object
ErrorBodies ==
    { Body(<<>>, <<>>, <<>>), Body(<<"at1">>, <<"rt1">>, <<<<"hdr", "ann", "sig">>>>) }

\* requests.post raised (timeout, connection error, no URL)
Raised == [raises |-> TRUE, status_code |-> 0, json |-> "none", body |-> EmptySession]

\* what requests.post can do: raise, or return a response with a status code
\* and a text that response.json() cannot parse, parses to a non-object, or
\* parses to an object
TokenResponses ==
    {Raised}
    \cup { [raises |-> FALSE, status_code |-> c, json |-> "invalid", body |-> EmptySession] :
             c \in {200, 400} }
    \cup { [raises |-> FALSE, status_code |-> 200, json |-> "array", body |-> EmptySession] }
    \cup { [raises |-> FALSE, status_code |-> 200, json |-> "object", body |-> b] :
             b \in Bodies }
    \cup { [raises |-> FALSE, status_code |-> 400, json |-> "object", body |-> b] :
             b \in ErrorBodies }

\* requests.post(OAUTH_CONFIG['token_url'], ...): without a URL it raises
PostOutcomes(cfg) == IF cfg.token_url = None THEN {Raised} ELSE TokenResponses

----------------------------------------------------------------------------
(* GET /callback *)

NoArgs == [code |-> None, state |-> None, error |-> None, error_description |-> None]

CallbackArgs ==
    [code : {None, "", "code-1"},
     state : {None, "", "forged"} \cup StateValues,
     error : {None, "", "access_denied"},
     error_description : {None, "user denied"}]

\* a callback that ignores the provider's error parameter
HasError_Ignored(error) == FALSE

\* if error:
HasError(error) == Truthy(error)

\* a comparison without the emptiness test
StateRejected_NoEmptyTest(state, stored_state) == state # stored_state

\* an emptiness test without the comparison
StateRejected_OnlyEmptyTest(state, stored_state) == ~Truthy(state)

\* if not state or state != stored_state:
StateRejected(state, stored_state) == ~Truthy(state) \/ state # stored_state

\* session.get in place of session.pop: the stored value stays
PopState_Keeps(s) == s

\* session.pop('oauth_state', None): the session it leaves
PopState(s) == Pop(s, "oauth_state")

\* a callback without the check of the authorization code
CodeMissing_Unchecked(code) == FALSE

\* if not code:
CodeMissing(code) == ~Truthy(code)

\* an exchange that leaves the client secret out
token_data_NoSecret(cfg, code) ==
    [grant_type |-> "authorization_code", code |-> code,
     redirect_uri |-> cfg.redirect_uri, client_id |-> cfg.client_id,
     client_secret |-> None]

token_data(cfg, code) ==
    [grant_type |-> "authorization_code", code |-> code,
     redirect_uri |-> cfg.redirect_uri, client_id |-> cfg.client_id,
     client_secret |-> cfg.client_secret]

\* an exchange without the status check
ExchangeFailed_NoStatusCheck(tr) == tr.raises

\* requests.post raised, or the status check raised
ExchangeFailed(tr) == tr.raises \/ tr.status_code # 200

\* a store that drops the refresh token
StoreTokens_NoRefresh(s, body) == Put(s, "access_token", Get(body, "access_token"))

\* a store that writes the access token only when the response carried one
StoreTokens_SkipsNone(s, body) ==
    LET s1 == IF Truthy(Get(body, "access_token"))
              THEN Put(s, "access_token", body["access_token"])
              ELSE s
    IN  IF Truthy(Get(body, "refresh_token"))
        THEN Put(s1, "refresh_token", body["refresh_token"])
        ELSE s1

\* session['access_token'] = access_token; if refresh_token: session['refresh_token'] = ...
StoreTokens(s, body) ==
    LET s1 == Put(s, "access_token", Get(body, "access_token"))
    IN  IF Truthy(Get(body, "refresh_token"))
        THEN Put(s1, "refresh_token", body["refresh_token"])
        ELSE s1

\* if id_token:
HasIdToken(body) == "id_token" \in DOMAIN body /\ body["id_token"] # <<"">>

\* the decoding of the identity token: the payload, or the exception
DecodeIdToken(id_token) ==
    IF Len(id_token) < 2
    THEN [kind |-> "raise", value |-> EmptySession]
    ELSE DecodeSegment(id_token[2])

\* session['user'] = {...}
UserClaims(payload) ==
    [email |-> Get(payload, "email"), name |-> Get(payload, "name"),
     sub |-> Get(payload, "sub")]

\* the try block, after requests.post has returned tr or raised
exchange(s, tr, posts) ==
    LET failed == [Response("/callback", 500, "token_exchange_failed") EXCEPT !.posts = posts]
        done == [Redirect("/callback", "/") EXCEPT !.posts = posts]
    IN  IF ExchangeFailed(tr) \/ tr.json # "object"
        THEN [session |-> s, resp |-> failed]
        ELSE LET s1 == StoreTokens(s, tr.body)
             IN  IF ~HasIdToken(tr.body)
                 THEN [session |-> s1, resp |-> done]
                 ELSE LET payload == DecodeIdToken(tr.body["id_token"])
                      IN  IF payload.kind # "object"
                          THEN [session |-> s1, resp |-> failed]
                          ELSE [session |-> Put(s1, "user", UserClaims(payload.value)),
                                resp |-> done]

\* the whole handler; tr is what requests.post does if it is called
callback(s, args, cfg, tr) ==
    IF HasError(args.error)
    THEN [session |-> s,
          resp |-> [Response("/callback", 400, "authorization_error")
                      EXCEPT !.params =
                         <<[error |-> args.error,
                            description |-> IF Truthy(args.error_description)
                                            THEN args.error_description
                                            ELSE "No description provided"]>>]]
    ELSE LET stored_state == Get(s, "oauth_state")
             s1 == PopState(s)
         IN  IF StateRejected(args.state, stored_state)
             THEN [session |-> s1, resp |-> Response("/callback", 403, "invalid_state")]
             ELSE IF CodeMissing(args.code)
             THEN [session |-> s1, resp |-> Response("/callback", 400, "no_code")]
             ELSE exchange(s1, tr,
                           <<[url |-> cfg.token_url, data |-> token_data(cfg, args.code)]>>)

----------------------------------------------------------------------------
(* The requests *)

\* the last request passed the state validation of /callback
PassedValidation(r) ==
    r.route = "/callback" /\ r.page \in {"no_code", "token_exchange_failed", "redirect"}

\* the token endpoint answered 200 with an object that carries an access_token
TokenObtained(t) ==
    t # <<>> /\ ~t[1].raises /\ t[1].status_code = 200 /\ t[1].json = "object"
    /\ "access_token" \in DOMAIN t[1].body

Init ==
    /\ OAUTH_CONFIG \in Configs
    /\ session = EmptySession
    /\ minted = 0
    /\ pre = EmptySession
    /\ req = [route |-> "none", args |-> NoArgs]
    /\ tresp = <<>>
    /\ resp = Response("none", 0, "none")
    /\ obtained = FALSE
    /\ consumed = {}
    /\ authorized = <<>>
    /\ inflight = EmptySession

Home ==
    /\ pre' = session
    /\ req' = [route |-> "/", args |-> NoArgs]
    /\ tresp' = <<>>
    /\ resp' = home(session)
    /\ UNCHANGED <<OAUTH_CONFIG, session, minted, obtained, consumed, authorized, inflight>>

Login ==
    /\ minted < MaxLogins
    /\ LET r == login(session, OAUTH_CONFIG, generate_state(minted + 1))
       IN  /\ session' = r.session
           /\ resp' = r.resp
    /\ minted' = minted + 1
    /\ pre' = session
    /\ req' = [route |-> "/login", args |-> NoArgs]
    /\ tresp' = <<>>
    /\ consumed' = {}
    /\ authorized' = resp'.params
    /\ UNCHANGED <<OAUTH_CONFIG, obtained, inflight>>

CallbackDone(args, t, r) ==
    /\ session' = r.session
    /\ resp' = r.resp
    /\ pre' = session
    /\ req' = [route |-> "/callback", args |-> args]
    /\ tresp' = t
    /\ obtained' = (obtained \/ TokenObtained(t))
    /\ consumed' = IF PassedValidation(r.resp) THEN consumed \cup {args.state} ELSE consumed
    /\ UNCHANGED <<OAUTH_CONFIG, minted, authorized, inflight>>

Callback ==
    \E args \in CallbackArgs :
        IF callback(session, args, OAUTH_CONFIG, Raised).resp.posts = <<>>
        THEN CallbackDone(args, <<>>, callback(session, args, OAUTH_CONFIG, Raised))
        ELSE \E tr \in PostOutcomes(OAUTH_CONFIG) :
                CallbackDone(args, <<tr>>, callback(session, args, OAUTH_CONFIG, tr))

Logout ==
    /\ LET r == logout(session)
       IN  /\ session' = r.session
           /\ resp' = r.resp
    /\ pre' = session
    /\ req' = [route |-> "/logout", args |-> NoArgs]
    /\ tresp' = <<>>
    /\ obtained' = FALSE
    /\ UNCHANGED <<OAUTH_CONFIG, minted, consumed, authorized, inflight>>

Profile ==
    /\ pre' = session
    /\ req' = [route |-> "/api/profile", args |-> NoArgs]
    /\ tresp' = <<>>
    /\ resp' = profile(session)
    /\ UNCHANGED <<OAUTH_CONFIG, session, minted, obtained, consumed, authorized, inflight>>

Next == Home \/ Login \/ Callback \/ Logout \/ Profile

Spec == Init /\ [][Next]_vars

----------------------------------------------------------------------------
(* Requests handled at the same time *)

(***************************************************************************)
(* app.secret_key selects Flask's default session: the session dict is a   *)
(* signed cookie.  Each request works on its own dict, read from the       *)
(* cookie the browser sent with it, and the response carries the dict back *)
(* as a new cookie when the handler changed it.  app.run serves each       *)
(* request in a thread of its own, so a second request can arrive, with    *)
(* the same cookie, before the first one's response has reached the        *)
(* browser.  session is the browser's cookie.                              *)
(***************************************************************************)

RequestIds == 1..MaxConcurrent

ConcurrentArgs ==
    [code : {None, "code-1"},
     state : {"forged"} \cup StateValues,
     error : {None, "access_denied"},
     error_description : {None}]

ConcurrentResponses ==
    { Raised,
      [raises |-> FALSE, status_code |-> 200, json |-> "object",
       body |-> Body(<<"at1">>, <<"rt1">>, <<<<"hdr", "ann", "sig">>>>)],
      [raises |-> FALSE, status_code |-> 200, json |-> "object",
       body |-> Body(<<"at2">>, <<>>, <<>>)] }

\* the browser sends a /callback with its cookie; the server reads the
\* request's session from it
Receive(i) ==
    /\ i \notin DOMAIN inflight
    /\ \E args \in ConcurrentArgs :
          inflight' = Put(inflight, i,
                          [stage |-> "received", args |-> args, cookie |-> session,
                           session |-> session, resp |-> Response("none", 0, "none")])
    /\ UNCHANGED <<OAUTH_CONFIG, session, minted, pre, req, tresp, resp, obtained,
                   consumed, authorized>>

\* the handler runs on the request's own session
Handle(i) ==
    /\ i \in DOMAIN inflight
    /\ inflight[i].stage = "received"
    /\ \E tr \in PostOutcomes(OAUTH_CONFIG) \cap ConcurrentResponses :
          LET r == callback(inflight[i].session, inflight[i].args, OAUTH_CONFIG, tr)
          IN  inflight' = [inflight EXCEPT ![i].stage = "handled",
                                           ![i].session = r.session,
                                           ![i].resp = r.resp]
    /\ UNCHANGED <<OAUTH_CONFIG, session, minted, pre, req, tresp, resp, obtained,
                   consumed, authorized>>

\* the response reaches the browser; a changed session replaces the cookie
Deliver(i) ==
    /\ i \in DOMAIN inflight
    /\ inflight[i].stage = "handled"
    /\ session' = IF inflight[i].session = inflight[i].cookie
                  THEN session
                  ELSE inflight[i].session
    /\ inflight' = [inflight EXCEPT ![i].stage = "delivered"]
    /\ UNCHANGED <<OAUTH_CONFIG, minted, pre, req, tresp, resp, obtained,
                   consumed, authorized>>

ConcurrentNext ==
    \/ Login
    \/ \E i \in RequestIds : Receive(i)
    \/ \E i \in RequestIds : Handle(i)
    \/ \E i \in RequestIds : Deliver(i)

SpecConcurrent == Init /\ [][ConcurrentNext]_vars

----------------------------------------------------------------------------
(* Vocabulary of the properties, in terms of the last request *)

IsCallback == req.route = "/callback"

\* the request named a provider error
ErrorGiven == req.args.error \notin {None, ""}

\* the state parameter is missing, empty, or not the value the session stored
StateMismatch ==
    \/ req.args.state \in {None, ""}
    \/ "oauth_state" \notin DOMAIN pre
    \/ req.args.state # pre["oauth_state"]

CodeGiven == req.args.code \notin {None, ""}

SessionKeys == {"oauth_state", "access_token", "refresh_token", "user"}

\* key k has the same presence and value in dicts a and b
SameEntry(a, b, k) ==
    /\ (k \in DOMAIN a) = (k \in DOMAIN b)
    /\ (k \in DOMAIN a => a[k] = b[k])

----------------------------------------------------------------------------
(* C1 *)

\* C1, as stated: every /callback whose state parameter is missing, empty or
\* different from the stored anti-forgery token is answered 403.
C1_MismatchAlways403 ==
    (IsCallback /\ StateMismatch) => resp.status = 403

\* C1, amended: every /callback that carries no non-empty error parameter and
\* whose state parameter is missing, empty or different from the stored
\* anti-forgery token (also when none is stored) is answered 403.
C1_MismatchWithoutError403 ==
    (IsCallback /\ ~ErrorGiven /\ StateMismatch) => resp.status = 403

\* a forged state value is rejected while the session holds a minted one
C1_Witness ==
    /\ IsCallback /\ ~ErrorGiven /\ CodeGiven
    /\ "oauth_state" \in DOMAIN pre
    /\ req.args.state = "forged"
    /\ resp.status = 403

----------------------------------------------------------------------------
(* C2 *)

\* C2: every /callback that carries a non-empty error parameter is answered 400
\* and calls the token endpoint not at all, whatever its code, its state and
\* the session.
C2_ErrorYields400NoPost ==
    (IsCallback /\ ErrorGiven) =>
        /\ resp.status = 400
        /\ resp.posts = <<>>
        /\ tresp = <<>>

\* an error request that would otherwise have gone on to the exchange
C2_Witness ==
    /\ IsCallback /\ ErrorGiven /\ CodeGiven /\ ~StateMismatch
    /\ resp.status = 400

----------------------------------------------------------------------------
(* C3 *)

\* C3, as stated: while no token has been obtained from the token endpoint
\* since the session was created or last cleared by /logout (a 200 response
\* without access_token obtains none), /api/profile is answered 401.
C3_NoTokenProfile401 ==
    (req.route = "/api/profile" /\ ~obtained) => resp.status = 401

----------------------------------------------------------------------------
(* C4 *)

\* C4: after /logout the session holds no anti-forgery token, no access token,
\* no refresh token and no user claims, and the response redirects to '/'; a
\* request to / that finds such a session shows the logged-out page and a
\* request to /api/profile that finds it is answered 401.
C4_LogoutClearsSession ==
    /\ req.route = "/logout" =>
          /\ DOMAIN session \cap SessionKeys = {}
          /\ resp.status = 302
          /\ resp.location = "/"
    /\ (req.route = "/" /\ DOMAIN pre \cap SessionKeys = {}) =>
          resp.page = "login_link"
    /\ (req.route = "/api/profile" /\ DOMAIN pre \cap SessionKeys = {}) =>
          resp.status = 401

\* a /logout that found the anti-forgery token, both tokens and the claims
C4_Witness ==
    /\ req.route = "/logout"
    /\ SessionKeys \subseteq DOMAIN pre

----------------------------------------------------------------------------
(* C5 *)

\* C5, as stated: once a /callback has passed state validation with a value,
\* every later /callback presenting that value with no /login in between is
\* answered 403.
C5_ReplayAlways403 ==
    [][ (req'.route = "/callback" /\ req'.args.state \in consumed) =>
            resp'.status = 403 ]_vars

\* C5, amended: once a /callback has passed state validation with a value, no
\* later /callback presenting that value with no /login in between passes
\* state validation: it is answered 403 when it carries no error parameter,
\* and 400 without any validation when it carries one.
C5_ReplayNeverPasses ==
    [][ (req'.route = "/callback" /\ req'.args.state \in consumed) =>
            /\ ~PassedValidation(resp')
            /\ resp'.posts = <<>>
            /\ resp'.status = (IF req'.args.error \in {None, ""} THEN 403 ELSE 400) ]_vars

\* a replay of a consumed value, with a code and without error, answered 403
C5_Witness ==
    /\ IsCallback /\ ~ErrorGiven /\ CodeGiven
    /\ req.args.state \in consumed
    /\ req.args.state \in StateValues
    /\ resp.status = 403

----------------------------------------------------------------------------
(* C6 *)

\* the token endpoint's answer to the last request made the try block raise
ExchangeRaised ==
    /\ tresp # <<>>
    /\ \/ tresp[1].raises
       \/ tresp[1].status_code # 200
       \/ tresp[1].json # "object"
       \/ /\ "id_token" \in DOMAIN tresp[1].body
          /\ tresp[1].body["id_token"] # <<"">>
          /\ \/ Len(tresp[1].body["id_token"]) < 2
             \/ DecodeSegment(tresp[1].body["id_token"][2]).kind # "object"

\* C6, as stated: a /callback response is the redirect to '/' or one of three
\* failures: 400 exactly when the provider reported an error, 403 on a state
\* mismatch, 500 on a token-exchange failure.
C6_ThreeFailures ==
    IsCallback =>
        /\ resp.status \in {302, 400, 403, 500}
        /\ (resp.status = 400) = ErrorGiven
        /\ resp.status = 403 => StateMismatch
        /\ resp.status = 500 => ExchangeRaised
        /\ resp.status = 302 => resp.location = "/"

\* C6, amended: a /callback response is the redirect to '/' or one of four
\* failures: 400 when the provider reported an error, 403 on a state mismatch
\* without such an error, 400 when the state matched but no authorization
\* code was given, 500 when the token exchange or the decoding of the
\* identity token raised; no other outcome exists.
C6_FourFailures ==
    IsCallback =>
        /\ resp.status \in {302, 400, 403, 500}
        /\ (resp.status = 400) = (ErrorGiven \/ (~StateMismatch /\ ~CodeGiven))
        /\ (resp.status = 403) = (~ErrorGiven /\ StateMismatch)
        /\ (resp.status = 500) = (~ErrorGiven /\ ~StateMismatch /\ CodeGiven /\ ExchangeRaised)
        /\ (resp.status = 302) = (~ErrorGiven /\ ~StateMismatch /\ CodeGiven /\ ~ExchangeRaised)
        /\ resp.status = 302 => resp.location = "/"
        /\ (tresp # <<>>) = (resp.status \in {302, 500})

\* the fourth failure: a valid state without a code
C6_Witness ==
    /\ IsCallback /\ ~ErrorGiven /\ ~StateMismatch /\ ~CodeGiven
    /\ resp.status = 400
    /\ resp.page = "no_code"

----------------------------------------------------------------------------
(* C7 *)

\* C7: a /callback calls the token endpoint at most once; when the call raises
\* or returns a status other than 200 the request is answered 500 with that
\* one call made.
C7_OnePostNoRetry ==
    IsCallback =>
        /\ Len(resp.posts) <= 1
        /\ (tresp # <<>>) = (Len(resp.posts) = 1)
        /\ (tresp # <<>> /\ (tresp[1].raises \/ tresp[1].status_code # 200)) =>
              (resp.status = 500 /\ Len(resp.posts) = 1)

\* a status other than 200 that carries a complete token object
C7_Witness ==
    /\ IsCallback
    /\ tresp # <<>>
    /\ ~tresp[1].raises
    /\ tresp[1].status_code = 400
    /\ "access_token" \in DOMAIN tresp[1].body
    /\ resp.status = 500

----------------------------------------------------------------------------
(* C8 *)

\* member k of the token response's JSON object, None when it has none
Member(k) == IF k \in DOMAIN tresp[1].body THEN tresp[1].body[k] ELSE None

\* claim k of the identity token's payload, None when it has none
Claim(k) ==
    LET payload == DecodeSegment(tresp[1].body["id_token"][2]).value
    IN  IF k \in DOMAIN payload THEN payload[k] ELSE None

\* C8: a /callback answered with the redirect to '/' leaves the session without
\* anti-forgery token, with the access token the token response carried (None
\* when it carried none), with the response's refresh token when it carried a
\* non-empty one, and with the email, name and sub of the identity token's
\* payload as user claims when it carried a non-empty identity token.
C8_SuccessStoresTokens ==
    (IsCallback /\ resp.status = 302) =>
        /\ tresp # <<>>
        /\ "oauth_state" \notin DOMAIN session
        /\ "access_token" \in DOMAIN session
        /\ session["access_token"] = Member("access_token")
        /\ Member("refresh_token") \notin {None, ""} =>
              /\ "refresh_token" \in DOMAIN session
              /\ session["refresh_token"] = Member("refresh_token")
        /\ ("id_token" \in DOMAIN tresp[1].body /\ tresp[1].body["id_token"] # <<"">>) =>
              /\ "user" \in DOMAIN session
              /\ DOMAIN session["user"] = {"email", "name", "sub"}
              /\ session["user"].email = Claim("email")
              /\ session["user"].name = Claim("name")
              /\ session["user"].sub = Claim("sub")

\* a second login that replaces the first one's refresh token and claims
C8_Witness ==
    /\ IsCallback /\ resp.status = 302
    /\ "refresh_token" \in DOMAIN pre /\ "user" \in DOMAIN pre
    /\ Member("refresh_token") = "rt2" /\ pre["refresh_token"] = "rt1"
    /\ Member("access_token") = "at2"
    /\ "id_token" \in DOMAIN tresp[1].body
    /\ tresp[1].body["id_token"] = <<"hdr", "bob", "sig">>
    /\ pre["user"].sub = "u1"

----------------------------------------------------------------------------
(* C9 *)

----------------------------------------------------------------------------
(* C10 *)

\* C10: /login stores a state value minted by this request, different from
\* every value minted before, redirects to the authorization endpoint with
\* that value as state parameter, and leaves access token, refresh token and
\* user claims as they were.
C10_LoginStoresFreshState ==
    req.route = "/login" =>
        /\ minted >= 1
        /\ "oauth_state" \in DOMAIN session
        /\ session["oauth_state"] = generate_state(minted)
        /\ \A n \in 1..(minted - 1) : session["oauth_state"] # generate_state(n)
        /\ resp.status = 302
        /\ resp.location = OAUTH_CONFIG.authorization_url
        /\ Len(resp.params) = 1
        /\ resp.params[1].state = session["oauth_state"]
        /\ \A k \in {"access_token", "refresh_token", "user"} : SameEntry(session, pre, k)

\* a /login of a session that is logged in
C10_Witness ==
    /\ req.route = "/login"
    /\ {"access_token", "refresh_token", "user"} \subseteq DOMAIN pre
    /\ minted = 2

----------------------------------------------------------------------------
(* C11 *)

\* C11: no request changes the configuration, and whenever a /callback posts
\* to the token endpoint, the redirect_uri and client_id it posts are those
\* the last /login attached to the authorization redirect.
C11_ConfigReadOnly ==
    [][ /\ OAUTH_CONFIG' = OAUTH_CONFIG
        /\ (req'.route = "/callback" /\ resp'.posts # <<>>) =>
              /\ authorized' # <<>>
              /\ resp'.posts[1].data.redirect_uri = authorized'[1].redirect_uri
              /\ resp'.posts[1].data.client_id = authorized'[1].client_id
              /\ resp'.posts[1].data.redirect_uri = OAUTH_CONFIG.redirect_uri
              /\ resp'.posts[1].data.client_id = OAUTH_CONFIG.client_id ]_vars

\* a token exchange of a configured application after its /login
C11_Witness ==
    /\ IsCallback
    /\ resp.posts # <<>>
    /\ authorized # <<>>
    /\ OAUTH_CONFIG = EnvConfigured
    /\ resp.posts[1].data.redirect_uri = "http://localhost:5000/callback"

----------------------------------------------------------------------------
(* C12 *)

\* C12: a /callback posts to the token endpoint only when it carries no error
\* parameter, its state matches the stored one and it carries a code; the one
\* POST then goes to the configured token URL with grant_type
\* authorization_code, the request's code and the configured redirect_uri,
\* client_id and client_secret.
C12_PostAfterAllChecks ==
    IsCallback =>
        /\ (resp.posts # <<>>) = (~ErrorGiven /\ ~StateMismatch /\ CodeGiven)
        /\ resp.posts # <<>> =>
              /\ Len(resp.posts) = 1
              /\ resp.posts[1].url = OAUTH_CONFIG.token_url
              /\ resp.posts[1].data =
                    [grant_type |-> "authorization_code",
                     code |-> req.args.code,
                     redirect_uri |-> OAUTH_CONFIG.redirect_uri,
                     client_id |-> OAUTH_CONFIG.client_id,
                     client_secret |-> OAUTH_CONFIG.client_secret]

\* a POST carrying the request's code and the configured secret
C12_Witness ==
    /\ IsCallback
    /\ resp.posts # <<>>
    /\ resp.posts[1].data.code = "code-1"
    /\ resp.posts[1].data.client_secret = "client-secret"

----------------------------------------------------------------------------
(* C13 *)

\* C13, as stated: of two /callback requests of one browser session that carry
\* the same cookie and the same valid state value and are handled at the same
\* time (both without error parameter and with a code), at most one passes
\* state validation; the other is answered 403.
C13_OneConcurrentValidation ==
    \A i, j \in DOMAIN inflight :
        ( /\ i # j
          /\ inflight[i].stage # "received" /\ inflight[j].stage # "received"
          /\ inflight[i].cookie = inflight[j].cookie
          /\ "oauth_state" \in DOMAIN inflight[i].cookie
          /\ inflight[i].args.state = inflight[i].cookie["oauth_state"]
          /\ inflight[j].args.state = inflight[i].args.state
          /\ inflight[i].args.error = None /\ inflight[j].args.error = None
          /\ inflight[i].args.code = "code-1" /\ inflight[j].args.code = "code-1" )
        => \/ inflight[i].resp.status = 403
           \/ inflight[j].resp.status = 403

----------------------------------------------------------------------------
(* C14 *)

\* C14: a /callback passes state validation only if its state parameter is the
\* value the most recent /login wrote, that value is still stored in the
\* session (not cleared by /logout) and has not passed a validation since;
\* so a session without /login, or a state value of an earlier /login, passes
\* none; and an access-token entry is written only by a /callback that passed
\* the validation.
C14_OnlyLatestUnusedState ==
    [][ /\ (req'.route = "/callback" /\ PassedValidation(resp')) =>
              /\ authorized # <<>>
              /\ req'.args.state = authorized[1].state
              /\ "oauth_state" \in DOMAIN session
              /\ session["oauth_state"] = req'.args.state
              /\ req'.args.state \notin consumed
        /\ ("access_token" \in DOMAIN session' /\ ~SameEntry(session', session, "access_token")) =>
              (req'.route = "/callback" /\ PassedValidation(resp')) ]_vars

\* the second /login's value passes and an access token is written
C14_Witness ==
    /\ IsCallback
    /\ PassedValidation(resp)
    /\ minted = 2
    /\ authorized # <<>>
    /\ req.args.state = authorized[1].state
    /\ "access_token" \in DOMAIN session
    /\ "access_token" \notin DOMAIN pre

----------------------------------------------------------------------------
(* C15 *)

\* C15: a session that holds user claims holds an access-token entry; the home
\* page shows the logged-in view only for a session that /api/profile does
\* not answer with 401.
C15_ClaimsImplyTokenEntry ==
    /\ "user" \in DOMAIN session => "access_token" \in DOMAIN session
    /\ req.route = "/" =>
          (resp.page = "welcome" => "access_token" \in DOMAIN pre)
    /\ req.route = "/api/profile" =>
          (resp.status = 401 => "user" \notin DOMAIN pre)

\* the logged-in view of a session whose access-token entry holds None
C15_Witness ==
    /\ req.route = "/"
    /\ resp.page = "welcome"
    /\ "access_token" \in DOMAIN session
    /\ session["access_token"] = None

----------------------------------------------------------------------------
(* C16 *)

\* C16, as stated: a /callback answered 500 leaves access token, refresh token
\* and user claims as they were; only the anti-forgery token is removed
\* (stated for token responses that, when they are JSON objects, carry an
\* access_token, so that the case of C3 plays no part).
C16_FailureKeepsTokens ==
    ( /\ IsCallback /\ resp.status = 500
      /\ tresp # <<>>
      /\ tresp[1].json = "object" => "access_token" \in DOMAIN tresp[1].body ) =>
        /\ "oauth_state" \notin DOMAIN session
        /\ \A k \in {"access_token", "refresh_token", "user"} : SameEntry(session, pre, k)

----------------------------------------------------------------------------
(* C17 *)

\* C17, as stated: the refresh token and the user claims stored beside an
\* access token come from the token response that access token came from;
\* stated for the session a /callback leaves when it has stored the access
\* token that a 200 response carried.
C17_TokensOfOneResponse ==
    ( /\ IsCallback
      /\ tresp # <<>>
      /\ ~tresp[1].raises /\ tresp[1].status_code = 200 /\ tresp[1].json = "object"
      /\ "access_token" \in DOMAIN tresp[1].body
      /\ "access_token" \in DOMAIN pre /\ pre["access_token"] # None
      /\ resp.status = 302 )
    => /\ "refresh_token" \in DOMAIN session =>
             session["refresh_token"] = Member("refresh_token")
       /\ "user" \in DOMAIN session =>
             /\ "id_token" \in DOMAIN tresp[1].body
             /\ tresp[1].body["id_token"] # <<"">>
             /\ session["user"].sub = Claim("sub")

----------------------------------------------------------------------------
(* C18 *)

\* the last request was a /callback answered 403 that removed the stored
\* anti-forgery token and left the other entries alone
RejectedAndConsumed ==
    (IsCallback /\ resp.status = 403) =>
        /\ "oauth_state" \notin DOMAIN session
        /\ \A k \in {"access_token", "refresh_token", "user"} : SameEntry(session, pre, k)

\* C18, as stated: a /callback answered 403 leaves no anti-forgery token and
\* the other entries unchanged, and a following /callback carrying a value
\* that /login had minted is answered 403 as well.
C18_RejectionThen403 ==
    [][ /\ RejectedAndConsumed
        /\ ( /\ IsCallback /\ resp.status = 403
             /\ req'.route = "/callback"
             /\ req'.args.state \in {generate_state(n) : n \in 1..minted} )
           => resp'.status = 403 ]_vars

\* C18, amended: a /callback answered 403 leaves no anti-forgery token and the
\* other entries unchanged; from then until a new /login (the only request
\* that stores one) no /callback passes state validation, whatever state it
\* carries: it is answered 403 when it carries no error parameter and 400,
\* without validation, when it carries one.
C18_RejectionConsumesState ==
    [][ /\ RejectedAndConsumed
        /\ (req'.route = "/callback" /\ "oauth_state" \notin DOMAIN session) =>
              /\ ~PassedValidation(resp')
              /\ resp'.posts = <<>>
              /\ resp'.status = (IF req'.args.error \in {None, ""} THEN 403 ELSE 400)
        /\ ("oauth_state" \notin DOMAIN session /\ "oauth_state" \in DOMAIN session') =>
              req'.route = "/login" ]_vars

\* the value of the last /login, never validated with success, is rejected
\* because an earlier rejection removed it (the session still holds the
\* access token of an earlier login, so no /logout removed it)
C18_Witness ==
    /\ IsCallback /\ ~ErrorGiven /\ CodeGiven
    /\ resp.status = 403
    /\ authorized # <<>>
    /\ req.args.state = authorized[1].state
    /\ req.args.state \notin consumed
    /\ "oauth_state" \notin DOMAIN pre
    /\ "access_token" \in DOMAIN pre

----------------------------------------------------------------------------
(* C19 *)

\* C19: a /callback answered 400 for a provider error leaves the session as it
\* found it; a following /callback without error whose state is the value the
\* session still stores passes state validation.
C19_ErrorKeepsSession ==
    [][ /\ (IsCallback /\ ErrorGiven) => (resp.status = 400 /\ session = pre)
        /\ ( /\ IsCallback /\ ErrorGiven
             /\ req'.route = "/callback"
             /\ req'.args.error \in {None, ""}
             /\ "oauth_state" \in DOMAIN pre
             /\ req'.args.state = pre["oauth_state"] )
           => PassedValidation(resp') ]_vars

\* an error request that carried the stored state and left it stored
C19_Witness ==
    /\ IsCallback /\ ErrorGiven
    /\ resp.status = 400
    /\ "oauth_state" \in DOMAIN session
    /\ req.args.state = session["oauth_state"]
    /\ "access_token" \in DOMAIN session

====
